---------------------------- MODULE Spec2Model ----------------------------
(***************************************************************************)
(* A model of the dense state-vector simulator quantum_simulation: the     *)
(* gate builders of utils.py, Qubit, QuantumRegister and the three         *)
(* algorithm drivers of algorithms.py, with the demonstration scripts as   *)
(* the callers that supply the inputs.                                     *)
(*                                                                         *)
(* Numbers.  Every amplitude the program computes from 0/1 inputs lies in  *)
(* Z[1/sqrt 2].  An ndarray is modelled as a record with integer           *)
(* numerators and one shared exponent e: the entry at i is                 *)
(* (re[i] + im[i]*j) / (sqrt 2)^e.  Arrays are 0-based functions.          *)
(* The representation is kept canonical (Reduce), so two arrays hold the   *)
(* same numbers exactly when their records are equal.                      *)
(***************************************************************************)
EXTENDS Integers, Sequences, FiniteSets, TLC

\* Largest qubit count the demonstration scripts use: range(1, 8).
MaxScriptQubits == 7
\* Bounds of the model.
MaxGroverQubits == 4
MaxMarked == 1
MaxDJQubits == 3
MaxRegQubits == 2
MaxOps == 3
MaxHeld == 2
MaxErrLen == 3

VARIABLES
  key,        \* the key (or marked index) the script drew, as a bit list
  f,          \* the truth table handed to a driver or to phase_oracle
  pc,         \* position inside the running driver / harness
  qregister,  \* the QuantumRegister object: [n, ref], ref the id of _state
  heap,       \* the ndarray objects alive: id -> array
  k,          \* grover_algorithm: number of iterations
  i,          \* grover_algorithm: loop counter
  gates,      \* history: the calls made on the register so far, in order
  result,     \* the value a driver returned
  labels,     \* the sequence QuantumRegister was constructed from
  held,       \* the vectors the caller holds: handles [base, part]
  snap,       \* history: what each held vector should still read
  shadow,     \* history: what the register's state should be
  before,     \* history: the register's state before the last call
  lastCall,   \* the last call on the register and its outcome
  ops,        \* number of calls made on the register
  call,       \* the last call into the core and its outcome (error harness)
  retval,     \* the matrix the last phase_oracle call returned
  seen        \* history: (violation class, failure kind) pairs observed

vars == <<key, f, pc, qregister, heap, k, i, gates, result, labels, held, snap,
          shadow, before, lastCall, ops, call, retval, seen>>

-----------------------------------------------------------------------------
(* Results of calls: a value, or an exception of some kind.                *)

Ok(v) == [ok |-> TRUE, kind |-> "none", val |-> v]
Raise(kind, v) == [ok |-> FALSE, kind |-> kind, val |-> v]

-----------------------------------------------------------------------------
(* Arrays.                                                                 *)

Len0(a) == Cardinality(DOMAIN a)

RECURSIVE Pow2(_)
Pow2(e) == IF e <= 0 THEN 1 ELSE 2 * Pow2(e - 1)

Abs(x) == IF x < 0 THEN -x ELSE x

Zeros(p) == [x \in 0..(p - 1) |-> 0]

AllEven(a) == \A x \in DOMAIN a.re : a.re[x] % 2 = 0 /\ a.im[x] % 2 = 0
AllZero(a) == \A x \in DOMAIN a.re : a.re[x] = 0 /\ a.im[x] = 0

\* The canonical record of an array: common factors of 2 moved out of e.
RECURSIVE Reduce(_)
Reduce(a) ==
  IF AllZero(a) THEN [a EXCEPT !.e = 0]
  ELSE IF a.e >= 2 /\ AllEven(a)
       THEN Reduce([re |-> [x \in DOMAIN a.re |-> a.re[x] \div 2],
                    im |-> [x \in DOMAIN a.im |-> a.im[x] \div 2],
                    e  |-> a.e - 2])
       ELSE a

\* Row-times-vector sum over the columns lo..hi.
RECURSIVE Dot(_, _, _, _)
Dot(row, v, lo, hi) ==
  IF lo > hi THEN 0
  ELSE IF lo = hi THEN row[lo] * v[lo]
  ELSE LET mid == (lo + hi) \div 2
       IN Dot(row, v, lo, mid) + Dot(row, v, mid + 1, hi)

Rows(G) == Len0(G.m)
Cols(G) == IF Rows(G) = 0 THEN 0 ELSE Len0(G.m[0])
Shape(G) == <<Rows(G), Cols(G)>>

\* gate_array @ state, for a real matrix and a complex vector.
MatVec(G, a) ==
  LET p == Len0(a.re)
  IN Reduce([re |-> [x \in 0..(Rows(G) - 1) |-> Dot(G.m[x], a.re, 0, p - 1)],
             im |-> [x \in 0..(Rows(G) - 1) |-> Dot(G.m[x], a.im, 0, p - 1)],
             e  |-> G.e + a.e])

\* np.kron of two complex vectors.
KronVec(a, b) ==
  LET lb == Len0(b.re)
  IN Reduce([re |-> [x \in 0..(Len0(a.re) * lb - 1) |->
                       a.re[x \div lb] * b.re[x % lb] - a.im[x \div lb] * b.im[x % lb]],
             im |-> [x \in 0..(Len0(a.re) * lb - 1) |->
                       a.re[x \div lb] * b.im[x % lb] + a.im[x \div lb] * b.re[x % lb]],
             e  |-> a.e + b.e])

\* np.kron of two real matrices.
Kron(A, B) ==
  LET rb == Rows(B)
      cb == Cols(B)
  IN [m |-> [x \in 0..(Rows(A) * rb - 1) |-> [y \in 0..(Cols(A) * cb - 1) |->
               A.m[x \div rb][y \div cb] * B.m[x % rb][y % cb]]],
      e |-> A.e + B.e]

-----------------------------------------------------------------------------
(* utils.py                                                                *)

\* SQRT1_2 = 1 / math.sqrt(2): the number 1 / (sqrt 2)^1.
SQRT1_2 == [num |-> 1, e |-> 1]

RECURSIVE FloorLog2(_)
FloorLog2(p) == IF p < 2 THEN 0 ELSE 1 + FloorLog2(p \div 2)

\* log2: math.log2 raises ValueError unless p > 0; then the assertion.
log2(p) ==
  IF p <= 0 THEN Raise("ValueError", 0)
  ELSE LET n == FloorLog2(p)
       IN IF Pow2(n) = p THEN Ok(n) ELSE Raise("AssertionError", 0)

\* hadamard(p, float), for p a power of two (log2(p) has succeeded).
RECURSIVE hadamard(_)
hadamard(p) ==
  LET n == log2(p).val
  IN IF n > 1
     THEN Kron(hadamard(2), hadamard(p \div 2))
     ELSE IF n = 1
          THEN [m |-> [x \in 0..1 |-> [y \in 0..1 |->
                        SQRT1_2.num * (IF x = 1 /\ y = 1 THEN -1 ELSE 1)]],
                e |-> SQRT1_2.e]
          ELSE [m |-> [x \in 0..0 |-> [y \in 0..0 |-> 1]], e |-> 0]

\* The matrices hadamard returns for the sizes the model uses, built once.
hadamardOfQubits == [n \in 0..MaxScriptQubits |-> hadamard(Pow2(n))]

NegOnePow(b) == IF b % 2 = 0 THEN 1 ELSE -1

\* phase_oracle(f, float) for a sequence f of integers.
phase_oracle(tbl) ==
  IF ~(\A x \in DOMAIN tbl : tbl[x] \in {0, 1})
  THEN Raise("AssertionError", 0)
  ELSE LET p == Len0(tbl)
       IN Ok([m |-> [x \in 0..(p - 1) |-> [y \in 0..(p - 1) |->
                       IF x = y THEN NegOnePow(tbl[x]) ELSE 0]],
              e |-> 0])

-----------------------------------------------------------------------------
(* qubit.py                                                                *)

\* Qubit(alpha, beta) for integer arguments whose squared magnitude is 0 or
\* a power of two (1 / sqrt(2^t) is (sqrt 2)^-t); zero and one are such.
Qubit(alpha, beta) ==
  LET squared_magnitude == Abs(alpha) * Abs(alpha) + Abs(beta) * Abs(beta)
  IN IF squared_magnitude > 0
     THEN [alpha |-> alpha, beta |-> beta, e |-> FloorLog2(squared_magnitude)]
     ELSE [alpha |-> SQRT1_2.num, beta |-> SQRT1_2.num, e |-> SQRT1_2.e]

\* Qubit.__array__: np.array([alpha, beta], complex).
QubitArray(q) ==
  [re |-> [x \in 0..1 |-> IF x = 0 THEN q.alpha ELSE q.beta],
   im |-> Zeros(2),
   e  |-> q.e]

zero == Qubit(1, 0)
one == Qubit(0, 1)

-----------------------------------------------------------------------------
(* quantum_register.py                                                     *)
(* A register value is [n, state].  A constructor argument is a sequence   *)
(* of items [t, v]: t the Python type of the item ("int", "str", "qubit"). *)

\* str(q) for a small integer.
Str(d) == CASE d = 0 -> "0" [] d = 1 -> "1" [] OTHER -> "2"

\* The value of one character of a base-2 literal.
DigitOf(c) == IF c = "1" THEN 1 ELSE 0

\* int("".join(chars), 2) for characters in {"0", "1"}.
RECURSIVE ParseBinary(_, _)
ParseBinary(chars, len) ==
  IF len = 0 THEN 0
  ELSE 2 * ParseBinary(chars, len - 1) + DigitOf(chars[len])

\* Mutant of KronLoop: the qubits are taken in their given order.
RECURSIVE KronLoopForward(_, _, _)
KronLoopForward(qubits, idx, state) ==
  IF idx = 0 THEN state
  ELSE KronLoopForward(qubits, idx - 1,
                       KronVec(QubitArray(qubits[Len(qubits) - idx + 1].v), state))

\* for q in reversed(qubits): state = np.kron(q, state); idx is the next
\* position to take, counting down from len(qubits).
RECURSIVE KronLoop(_, _, _)
KronLoop(qubits, idx, state) ==
  IF idx = 0 THEN state
  ELSE KronLoop(qubits, idx - 1, KronVec(QubitArray(qubits[idx].v), state))

\* QuantumRegister.__init__
QuantumRegister(qubits) ==
  IF ~(Len(qubits) > 0) THEN Raise("AssertionError", 0)
  ELSE
    LET n == Len(qubits)
        p == Pow2(n)
        allInt == \A x \in 1..n : qubits[x].t = "int"
    IN IF \A x \in 1..n : qubits[x].t = "qubit"
       THEN Ok([n |-> n,
                state |-> KronLoop(qubits, n,
                                   [re |-> [x \in 0..0 |-> 1], im |-> Zeros(1), e |-> 0])])
       ELSE IF allInt /\ ~(\A x \in 1..n : qubits[x].v \in {0, 1})
       THEN Raise("AssertionError", 0)
       ELSE LET strs == IF allInt
                        THEN [x \in 1..n |-> [t |-> "str", v |-> Str(qubits[x].v)]]
                        ELSE qubits
            IN IF ~(\A x \in 1..n : strs[x].t = "str")
               THEN Raise("AssertionError", 0)
               ELSE IF ~(\A x \in 1..n : strs[x].v \in {"0", "1"})
               THEN Raise("AssertionError", 0)
               ELSE LET index == ParseBinary([x \in 1..n |-> strs[x].v], n)
                    IN Ok([n |-> n,
                           state |-> [re |-> [x \in 0..(p - 1) |-> IF x = index THEN 1 ELSE 0],
                                      im |-> Zeros(p),
                                      e  |-> 0]])

\* A float ndarray as an argument of apply.
FloatArray(G) == [dtype |-> "float", container |-> "ndarray", re |-> G]

\* np.asarray(gate, float): a complex ndarray is cast with its imaginary
\* parts discarded (ComplexWarning); a nested list holding Python complex
\* numbers raises TypeError.
asarray_float(gate) ==
  IF gate.dtype = "complex" /\ gate.container = "list"
  THEN Raise("TypeError", 0)
  ELSE Ok(gate.re)

\* A failure from inside apply after the state was assigned (mutant only).
apply_assert_after_assign(reg, gate) ==
  LET gate_array == asarray_float(gate)
  IN IF ~gate_array.ok THEN Raise(gate_array.kind, reg)
     ELSE IF Cols(gate_array.val) # Pow2(reg.n) THEN Raise("ValueError", reg)
     ELSE IF Shape(gate_array.val) # <<Pow2(reg.n), Pow2(reg.n)>>
          THEN Raise("AssertionError",
                     [reg EXCEPT !.state = MatVec(gate_array.val, reg.state)])
          ELSE Ok([reg EXCEPT !.state = MatVec(gate_array.val, reg.state)])

\* QuantumRegister.apply: the result carries the register after the call.
apply(reg, gate) ==
  LET gate_array == asarray_float(gate)
  IN IF ~gate_array.ok THEN Raise(gate_array.kind, reg)
     ELSE IF Shape(gate_array.val) # <<Pow2(reg.n), Pow2(reg.n)>>
          THEN Raise("AssertionError", reg)
          ELSE Ok([reg EXCEPT !.state = MatVec(gate_array.val, reg.state)])

\* QuantumRegister.h
h(reg) == apply(reg, FloatArray(hadamardOfQubits[reg.n]))

\* QuantumRegister.r: 2 / p * ones - eye, every entry over p = (sqrt 2)^(2n).
r_gate(reg) ==
  LET p == Pow2(reg.n)
  IN [m |-> [x \in 0..(p - 1) |-> [y \in 0..(p - 1) |->
               2 * 1 - (IF x = y THEN p ELSE 0)]],
      e |-> 2 * reg.n]

r(reg) == apply(reg, FloatArray(r_gate(reg)))

\* QuantumRegister.o_f
o_f(reg, tbl) ==
  LET gate == phase_oracle(tbl)
  IN IF ~gate.ok THEN Raise(gate.kind, reg)
     ELSE apply(reg, FloatArray(gate.val))

\* ndarray.real / ndarray.imag / the array itself, as the numbers read.
View(a, part) ==
  CASE part = "real" -> Reduce([re |-> a.re, im |-> Zeros(Len0(a.re)), e |-> a.e])
    [] part = "imag" -> Reduce([re |-> a.im, im |-> Zeros(Len0(a.re)), e |-> a.e])
    [] OTHER -> a

-----------------------------------------------------------------------------
(* The objects: the register's _state names an ndarray on the heap.        *)

NoRegister == [n |-> 0, ref |-> 0]

HeldBases == {hnd.base : hnd \in held}

\* The id of a newly allocated object: the smallest one not in use.
FreshId(used) ==
  CHOOSE x \in 0..Cardinality(used) :
    x \notin used /\ \A y \in 0..(x - 1) : y \in used

\* The register object as a value.
Reg == [n |-> qregister.n, state |-> heap[qregister.ref]]

\* self._state = <a new array>; the array it named before is freed unless
\* the caller still holds it.
Rebind(n, state) ==
  LET id == FreshId(HeldBases \cup (IF qregister.n > 0 THEN {qregister.ref} ELSE {}))
  IN /\ qregister' = [n |-> n, ref |-> id]
     /\ heap' = [x \in HeldBases \cup {id} |-> IF x = id THEN state ELSE heap[x]]

\* The effect on the register of a call that ended as res.
Effect(res) ==
  IF res.ok \/ res.val # Reg
  THEN Rebind(res.val.n, res.val.state)
  ELSE UNCHANGED <<qregister, heap>>

-----------------------------------------------------------------------------
(* algorithms.py                                                           *)

\* The first index holding the maximum: ndarray.argmax().
ArgMax(v) ==
  CHOOSE x \in DOMAIN v :
    /\ \A y \in DOMAIN v : v[y] <= v[x]
    /\ \A y \in DOMAIN v : y < x => v[y] < v[x]

\* np.square of a real vector (the scale doubles; it is common to all entries).
Square(v) == [x \in DOMAIN v |-> v[x] * v[x]]

\* format(v, "b"): the binary digits of v, most significant first.
RECURSIVE Bin(_)
Bin(v) == IF v < 2 THEN <<Str(v)>> ELSE Append(Bin(v \div 2), Str(v % 2))

\* format(v, f"0{n}b"): zero-padded on the left to at least n characters.
Format0b(v, n) ==
  LET d == Bin(v)
  IN IF Len(d) >= n THEN d ELSE [x \in 1..(n - Len(d)) |-> "0"] \o d

\* list(map(int, chars))
IntList(chars) == [x \in 1..Len(chars) |-> DigitOf(chars[x])]

\* np.allclose(a, t) for a = num / (sqrt 2)^e and an integer t:
\* |a - t| <= 1e-8 + 1e-5 * |t|.  For odd e and num # 0 the number a is
\* irrational and no nearer to an integer than (sqrt 2)^-(e+1) / 2, which
\* exceeds the tolerance for every e below 30.
AllClose(num, e, t) ==
  IF e % 2 = 0
  THEN LET d == Pow2(e \div 2)
       IN Abs(num - t * d) <= ((1 + 1000 * Abs(t)) * d) \div 100000000
  ELSE num = 0 /\ t = 0

\* Mutant of GroverIterations: the quotient is rounded up instead of down.
GroverIterationsCeil(n) ==
  CHOOSE kk \in 0..(Pow2((n + 1) \div 2) + 1) :
    /\ (4 * kk * 113) * (4 * kk * 113) >= 355 * 355 * Pow2(n)
    /\ (4 * (kk - 1) * 113) * (4 * (kk - 1) * 113) < 355 * 355 * Pow2(n)

\* math.floor(np.pi * math.sqrt(2 ** n) / 4): the greatest kk with
\* (4 * kk)^2 <= pi^2 * 2^n, with pi taken as 355/113 (pi * sqrt(2^n) / 4 is
\* farther than 1e-6 from an integer for every n up to 30).
GroverIterations(n) ==
  CHOOSE kk \in 0..Pow2((n + 1) \div 2) :
    /\ (4 * kk * 113) * (4 * kk * 113) <= 355 * 355 * Pow2(n)
    /\ (4 * (kk + 1) * 113) * (4 * (kk + 1) * 113) > 355 * 355 * Pow2(n)

\* The lines every driver starts with: p = len(f); n = log2(p);
\* o_f = phase_oracle(f); qubits = [zero] * n; qregister = QRegister(qubits).
Prepare(tbl) ==
  LET n == log2(Len0(tbl))
      gate == phase_oracle(tbl)
  IN IF ~n.ok THEN Raise(n.kind, 0)
     ELSE IF ~gate.ok THEN Raise(gate.kind, 0)
     ELSE QuantumRegister([x \in 1..n.val |-> [t |-> "qubit", v |-> zero]])

\* Mutant of Classify: the final else branch is lost.
ClassifyWithoutOther(state) ==
  LET flag == [num |-> View(state, "real").re[0], e |-> View(state, "real").e]
  IN IF AllClose(flag.num, flag.e, 1) THEN "constant 0"
     ELSE IF AllClose(flag.num, flag.e, -1) THEN "constant 1"
     ELSE "balanced"

\* The classification at the end of deutsch_jozsa_algorithm.
Classify(state) ==
  LET flag == [num |-> View(state, "real").re[0], e |-> View(state, "real").e]
  IN IF AllClose(flag.num, flag.e, 1) THEN "constant 0"
     ELSE IF AllClose(flag.num, flag.e, -1) THEN "constant 1"
     ELSE IF AllClose(flag.num, flag.e, 0) THEN "balanced"
     ELSE "other"

\* found_index of grover_algorithm.
GroverIndex(n, state) ==
  IntList(Format0b(ArgMax(Square(View(state, "real").re)), n))

\* Mutant of BVKey: the index is formatted without the zero padding.
BVKeyUnpadded(n, state) ==
  IntList(Bin(ArgMax(View(state, "real").re)))

\* found_key of bernstein_vazirani_algorithm.
BVKey(n, state) ==
  IntList(Format0b(ArgMax(View(state, "real").re), n))

\* A driver's start, from pc = "start".
Start(to) ==
  /\ pc = "start"
  /\ LET res == Prepare(f)
     IN IF res.ok
        THEN /\ Rebind(res.val.n, res.val.state)
             /\ pc' = to
             /\ result' = result
        ELSE /\ UNCHANGED <<qregister, heap>>
             /\ pc' = "raised"
             /\ result' = <<res.kind>>

\* One call on the register inside a driver.
Step(from, res, name, to) ==
  /\ pc = from
  /\ Effect(res)
  /\ gates' = Append(gates, name)
  /\ IF res.ok THEN pc' = to /\ result' = result
               ELSE pc' = "raised" /\ result' = <<res.kind>>

\* What the drivers never touch.
harnessVars == <<labels, held, snap, shadow, before, lastCall, ops, call, retval, seen>>

\* deutsch_jozsa_algorithm
DJStart == Start("h1") /\ UNCHANGED <<key, f, k, i, gates, harnessVars>>
DJHadamard1 == Step("h1", h(Reg), "h", "oracle") /\ UNCHANGED <<key, f, k, i, harnessVars>>
DJOracle ==
  /\ Step("oracle", apply(Reg, FloatArray(phase_oracle(f).val)), "o_f", "h2")
  /\ UNCHANGED <<key, f, k, i, harnessVars>>
DJHadamard2 == Step("h2", h(Reg), "h", "classify") /\ UNCHANGED <<key, f, k, i, harnessVars>>
DJClassify ==
  /\ pc = "classify"
  /\ result' = Classify(View(Reg.state, "all"))
  /\ pc' = "done"
  /\ UNCHANGED <<key, f, qregister, heap, k, i, gates, harnessVars>>

\* grover_algorithm
GroverStart ==
  /\ Start("h")
  /\ k' = IF log2(Len0(f)).ok THEN GroverIterations(log2(Len0(f)).val) ELSE k
  /\ UNCHANGED <<key, f, i, gates, harnessVars>>
GroverHadamard ==
  /\ Step("h", h(Reg), "h", IF 0 < k THEN "oracle" ELSE "extract")
  /\ UNCHANGED <<key, f, k, i, harnessVars>>
GroverOracle ==
  /\ Step("oracle", apply(Reg, FloatArray(phase_oracle(f).val)), "o_f", "diffusion")
  /\ UNCHANGED <<key, f, k, i, harnessVars>>
GroverDiffusion ==
  /\ Step("diffusion", r(Reg), "r", IF i + 1 < k THEN "oracle" ELSE "extract")
  /\ i' = i + 1
  /\ UNCHANGED <<key, f, k, harnessVars>>
GroverExtract ==
  /\ pc = "extract"
  /\ result' = GroverIndex(Reg.n, View(Reg.state, "all"))
  /\ pc' = "done"
  /\ UNCHANGED <<key, f, qregister, heap, k, i, gates, harnessVars>>

\* bernstein_vazirani_algorithm
BVStart == Start("h1") /\ UNCHANGED <<key, f, k, i, gates, harnessVars>>
BVHadamard1 == Step("h1", h(Reg), "h", "oracle") /\ UNCHANGED <<key, f, k, i, harnessVars>>
BVOracle ==
  /\ Step("oracle", apply(Reg, FloatArray(phase_oracle(f).val)), "o_f", "h2")
  /\ UNCHANGED <<key, f, k, i, harnessVars>>
BVHadamard2 == Step("h2", h(Reg), "h", "extract") /\ UNCHANGED <<key, f, k, i, harnessVars>>
BVExtract ==
  /\ pc = "extract"
  /\ result' = BVKey(Reg.n, View(Reg.state, "all"))
  /\ pc' = "done"
  /\ UNCHANGED <<key, f, qregister, heap, k, i, gates, harnessVars>>

-----------------------------------------------------------------------------
(* scripts: the inputs the demonstrations hand to the drivers.             *)

\* The bit lists of length n.
BitLists(n) == [1..n -> {0, 1}]

\* int("".join(map(str, bits)), 2)
IndexOf(bits) == ParseBinary([x \in 1..Len(bits) |-> Str(bits[x])], Len(bits))

\* value & x
RECURSIVE BitAnd(_, _)
BitAnd(a, b) ==
  IF a = 0 \/ b = 0 THEN 0
  ELSE (a % 2) * (b % 2) + 2 * BitAnd(a \div 2, b \div 2)

\* bin(v).count("1")
RECURSIVE PopCount(_)
PopCount(v) == IF v = 0 THEN 0 ELSE (v % 2) + PopCount(v \div 2)

\* bernstein_vazirani_algorithm.py: encode(key)
encode(bits) ==
  LET n == Len(bits)
      value == IndexOf(bits)
  IN [x \in 0..(Pow2(n) - 1) |-> PopCount(BitAnd(value, x)) % 2]

\* The 0/1 tables of length p, and those with at most c ones
\* (random.choices([0, 1], k=2 ** n)).
Tables(p) == [0..(p - 1) -> {0, 1}]
Ones(tbl) == Cardinality({x \in DOMAIN tbl : tbl[x] = 1})
RECURSIVE IndexSetsUpTo(_, _)
IndexSetsUpTo(p, c) ==
  IF c = 0 THEN {{}}
  ELSE LET smaller == IndexSetsUpTo(p, c - 1)
       IN smaller \cup {T \cup {x} : T \in smaller, x \in 0..(p - 1)}
TablesUpTo(p, c) ==
  {[x \in 0..(p - 1) |-> IF x \in S THEN 1 ELSE 0] : S \in IndexSetsUpTo(p, c)}

InitHarnessIdle ==
  /\ labels = <<>>
  /\ held = {}
  /\ snap = <<>>
  /\ shadow = <<>>
  /\ before = <<>>
  /\ lastCall = [op |-> "none", arg |-> "none", ok |-> TRUE, kind |-> "none",
                 ret |-> "none"]
  /\ ops = 0
  /\ call = [fn |-> "none", p |-> 0, class |-> {}, failed |-> FALSE, kind |-> "none"]
  /\ retval = <<>>
  /\ seen = {}

InitDriverIdle ==
  /\ pc = "start"
  /\ qregister = NoRegister
  /\ heap = <<>>
  /\ k = 0
  /\ i = 0
  /\ gates = <<>>
  /\ result = <<>>

\* bernstein_vazirani_algorithm.py main: the encoded functions.
InitBV ==
  /\ key \in UNION {BitLists(n) : n \in 1..MaxScriptQubits}
  /\ f = encode(key)
  /\ InitDriverIdle
  /\ InitHarnessIdle
NextBV == BVStart \/ BVHadamard1 \/ BVOracle \/ BVHadamard2 \/ BVExtract
SpecBV == InitBV /\ [][NextBV]_vars

\* grover_algorithm.py main: tables with one marked index, and other tables.
InitGrover ==
  /\ key = <<>>
  /\ f \in UNION {TablesUpTo(Pow2(n), MaxMarked) : n \in 1..MaxGroverQubits}
  /\ InitDriverIdle
  /\ InitHarnessIdle
NextGrover == GroverStart \/ GroverHadamard \/ GroverOracle \/ GroverDiffusion \/ GroverExtract
SpecGrover == InitGrover /\ [][NextGrover]_vars

\* deutsch_jozsa_algorithm.py main: constant, balanced and random tables.
InitDJ ==
  /\ key = <<>>
  /\ f \in UNION {Tables(Pow2(n)) : n \in 0..MaxDJQubits}
  /\ InitDriverIdle
  /\ InitHarnessIdle
NextDJ == DJStart \/ DJHadamard1 \/ DJOracle \/ DJHadamard2 \/ DJClassify
SpecDJ == InitDJ /\ [][NextDJ]_vars

-----------------------------------------------------------------------------
(* A caller of QuantumRegister: constructs one register, calls apply, h, r *)
(* and o_f on it, reads state / real / imag and writes into the vectors    *)
(* it was handed.                                                          *)

\* The constructor arguments for a bit list: as integers, as one-character
\* strings, as the predefined qubits.
AsInts(bits) == [x \in 1..Len(bits) |-> [t |-> "int", v |-> bits[x]]]
AsStrs(bits) == [x \in 1..Len(bits) |-> [t |-> "str", v |-> Str(bits[x])]]
AsQubits(bits) ==
  [x \in 1..Len(bits) |-> [t |-> "qubit", v |-> IF bits[x] = 0 THEN zero ELSE one]]

Argument(form, bits) ==
  CASE form = "int" -> AsInts(bits)
    [] form = "str" -> AsStrs(bits)
    [] OTHER -> AsQubits(bits)

Identity(p) == [x \in 0..(p - 1) |-> [y \in 0..(p - 1) |-> IF x = y THEN 1 ELSE 0]]
ZeroMatrix(p) == [x \in 0..(p - 1) |-> [y \in 0..(p - 1) |-> 0]]

\* The gates the caller passes to apply on a register of dimension p.
GateNames == {"x", "iI", "iI_list", "row", "big"}
Gate(name, p) ==
  CASE name = "x" ->     \* the bit-flip of every qubit, a float ndarray
         FloatArray([m |-> [x \in 0..(p - 1) |-> [y \in 0..(p - 1) |->
                              IF x + y = p - 1 THEN 1 ELSE 0]],
                     e |-> 0])
    [] name = "iI" ->    \* 1j * np.eye(p): a complex ndarray
         [dtype |-> "complex", container |-> "ndarray",
          re |-> [m |-> ZeroMatrix(p), e |-> 0], im |-> Identity(p)]
    [] name = "iI_list" ->  \* the same matrix as a nested list
         [dtype |-> "complex", container |-> "list",
          re |-> [m |-> ZeroMatrix(p), e |-> 0], im |-> Identity(p)]
    [] name = "row" ->   \* np.ones((1, p))
         FloatArray([m |-> [x \in 0..0 |-> [y \in 0..(p - 1) |-> 1]], e |-> 0])
    [] OTHER ->          \* np.eye(2 * p)
         FloatArray([m |-> Identity(2 * p), e |-> 0])

\* The tables the caller passes to o_f on a register of dimension p.
TableNames == {"zeros", "first", "last", "two", "long"}
Table(name, p) ==
  CASE name = "zeros" -> [x \in 0..(p - 1) |-> 0]
    [] name = "first" -> [x \in 0..(p - 1) |-> IF x = 0 THEN 1 ELSE 0]
    [] name = "last" -> [x \in 0..(p - 1) |-> IF x = p - 1 THEN 1 ELSE 0]
    [] name = "two" -> [x \in 0..(p - 1) |-> IF x = 0 THEN 2 ELSE 0]
    [] OTHER -> [x \in 0..p |-> 0]

InitReg ==
  /\ key = <<>>
  /\ f = <<>>
  /\ InitDriverIdle
  /\ InitHarnessIdle

driverVars == <<key, f, k, i, result, call, retval, seen>>

\* QuantumRegister(qubits) for a bit list given in one of the three forms.
Construct ==
  /\ pc = "start"
  /\ \E n \in 1..MaxRegQubits : \E bits \in BitLists(n) :
       \E form \in {"int", "str", "qubit"} :
         LET res == QuantumRegister(Argument(form, bits))
         IN /\ res.ok
            /\ Rebind(res.val.n, res.val.state)
            /\ labels' = bits
            /\ shadow' = res.val.state
            /\ before' = res.val.state
  /\ pc' = "live"
  /\ lastCall' = [op |-> "__init__", arg |-> "none", ok |-> TRUE, kind |-> "none",
                  ret |-> "none"]
  /\ UNCHANGED <<driverVars, gates, held, snap, ops>>

\* One call of apply / h / r / o_f that ended as res.
Called(op, arg, res) ==
  /\ pc = "live"
  /\ ops < MaxOps
  /\ Effect(res)
  /\ before' = Reg.state
  /\ shadow' = IF res.ok THEN res.val.state ELSE shadow
  /\ gates' = IF res.ok THEN Append(gates, op) ELSE gates
  /\ lastCall' = [op |-> op, arg |-> arg, ok |-> res.ok, kind |-> res.kind,
                  ret |-> IF res.ok THEN "self" ELSE "none"]
  /\ ops' = ops + 1
  /\ UNCHANGED <<driverVars, pc, labels, held, snap>>

CallApply == \E g \in GateNames : Called("apply", g, apply(Reg, Gate(g, Pow2(Reg.n))))
CallH == Called("h", "none", h(Reg))
CallR == Called("r", "none", r(Reg))
CallOf == \E t \in TableNames : Called("o_f", t, o_f(Reg, Table(t, Pow2(Reg.n))))

\* Mutant of state: the array itself is returned, not a copy.
stateWithoutCopy(ref, fresh) == ref

\* QuantumRegister.state: self._state.copy(), the object the caller gets
\* (ref is the array _state names, fresh the id of a new array).
state(ref, fresh) == fresh

\* A read of state ("all"), real or imag: real and imag are views of the
\* array that state returned.
Read(part) ==
  /\ pc = "live"
  /\ ops < MaxOps
  /\ Cardinality(held) < MaxHeld
  /\ LET base == state(qregister.ref, FreshId(HeldBases \cup {qregister.ref}))
         hnd == [base |-> base, part |-> part]
     IN /\ held' = held \cup {hnd}
        /\ heap' = [x \in DOMAIN heap \cup {base} |->
                      IF x \in DOMAIN heap THEN heap[x] ELSE heap[qregister.ref]]
        /\ snap' = [y \in held \cup {hnd} |->
                      IF y = hnd THEN View(heap[qregister.ref], part) ELSE snap[y]]
  /\ lastCall' = [op |-> part, arg |-> "none", ok |-> TRUE, kind |-> "none",
                  ret |-> "vector"]
  /\ gates' = Append(gates, part)
  /\ ops' = ops + 1
  /\ UNCHANGED <<driverVars, pc, qregister, labels, shadow, before>>

ReadState == Read("all")
ReadReal == Read("real")
ReadImag == Read("imag")

\* a[idx] = 0 through a vector the caller holds.
WriteZero(a, part, idx) ==
  Reduce([re |-> IF part = "imag" THEN a.re ELSE [a.re EXCEPT ![idx] = 0],
          im |-> IF part = "real" THEN a.im ELSE [a.im EXCEPT ![idx] = 0],
          e  |-> a.e])

Write ==
  /\ pc = "live"
  /\ ops < MaxOps
  /\ \E hnd \in held : \E idx \in DOMAIN heap[hnd.base].re :
       /\ heap' = [heap EXCEPT ![hnd.base] = WriteZero(@, hnd.part, idx)]
       /\ snap' = [snap EXCEPT ![hnd] =
                     View(WriteZero(heap[hnd.base], hnd.part, idx), hnd.part)]
  /\ lastCall' = [op |-> "write", arg |-> "none", ok |-> TRUE, kind |-> "none",
                  ret |-> "none"]
  /\ gates' = Append(gates, "write")
  /\ ops' = ops + 1
  /\ UNCHANGED <<driverVars, pc, qregister, labels, held, shadow, before>>

NextReg ==
  \/ Construct
  \/ CallApply
  \/ CallH
  \/ CallR
  \/ CallOf
  \/ ReadState
  \/ ReadReal
  \/ ReadImag
  \/ Write
SpecReg == InitReg /\ [][NextReg]_vars

-----------------------------------------------------------------------------
(* A caller that hands the core arguments violating its preconditions:     *)
(* log2, phase_oracle, QuantumRegister, apply and the start of a driver.   *)

IsPow2(p) == p > 0 /\ Pow2(FloorLog2(p)) = p

\* The classes of precondition a truth table violates: a size that is not a
\* power of two, a value other than 0/1, an empty table.
TableViolations(tbl) ==
  (IF \E x \in DOMAIN tbl : tbl[x] \notin {0, 1} THEN {"domain"} ELSE {})
    \cup (IF Len0(tbl) = 0 THEN {"empty"}
          ELSE IF ~IsPow2(Len0(tbl)) THEN {"size"} ELSE {})

\* The tables of length 0..MaxErrLen with values in {0, 1, 2}.
ErrTables == UNION {[0..(len - 1) -> {0, 1, 2}] : len \in 0..MaxErrLen}

\* The basis-label sequences of length 0..2, as integers or as strings.
ErrLabels(form) ==
  UNION {{Argument(form, bits) : bits \in [1..len -> {0, 1, 2}]} : len \in 0..2}

InitErr ==
  /\ key = <<>>
  /\ f = <<>>
  /\ InitDriverIdle
  /\ InitHarnessIdle

\* The record of one call and its outcome; the caller keeps only the
\* argument of its last call.
Outcome(fn, p, class, res) ==
  /\ call' = [fn |-> fn, p |-> p, class |-> class, failed |-> ~res.ok, kind |-> res.kind]
  /\ seen' = IF ~res.ok /\ Cardinality(class) = 1
             THEN seen \cup {[class |-> CHOOSE c \in class : TRUE, kind |-> res.kind]}
             ELSE seen
  /\ UNCHANGED <<key, pc, qregister, heap, k, i, gates, result, held, snap,
                 shadow, before, lastCall, ops>>

ErrLog2 ==
  \E p \in 0..Pow2(MaxErrLen) :
    /\ Outcome("log2", p,
               IF p = 0 THEN {"empty"} ELSE IF ~IsPow2(p) THEN {"size"} ELSE {},
               log2(p))
    /\ f' = <<>> /\ labels' = <<>> /\ retval' = <<>>

ErrPhaseOracle ==
  \E tbl \in ErrTables :
    /\ Outcome("phase_oracle", Len0(tbl), TableViolations(tbl), phase_oracle(tbl))
    /\ f' = tbl
    /\ retval' = IF phase_oracle(tbl).ok THEN phase_oracle(tbl).val.m ELSE <<>>
    /\ labels' = <<>>

ErrDriver ==
  \E tbl \in ErrTables :
    /\ Outcome("driver", Len0(tbl),
               TableViolations(tbl) \cup (IF Len0(tbl) = 1 THEN {"empty"} ELSE {}),
               Prepare(tbl))
    /\ f' = tbl
    /\ labels' = <<>> /\ retval' = <<>>

ErrConstruct ==
  \E form \in {"int", "str"} : \E qubits \in ErrLabels(form) :
    /\ Outcome("QuantumRegister", Len(qubits),
               (IF Len(qubits) = 0 THEN {"empty"} ELSE {})
                 \cup (IF \E x \in 1..Len(qubits) :
                            IF form = "int" THEN qubits[x].v \notin {0, 1}
                                            ELSE qubits[x].v \notin {"0", "1"}
                       THEN {"domain"} ELSE {}),
               QuantumRegister(qubits))
    /\ labels' = qubits
    /\ f' = <<>> /\ retval' = <<>>

\* apply of np.eye(q) on a one-qubit register.
ErrApply ==
  \E q \in 0..MaxErrLen :
    /\ Outcome("apply", q, IF q # 2 THEN {"size"} ELSE {},
               apply(QuantumRegister(AsInts(<<0>>)).val,
                     FloatArray([m |-> Identity(q), e |-> 0])))
    /\ f' = <<>> /\ labels' = <<>> /\ retval' = <<>>

NextErr == ErrLog2 \/ ErrPhaseOracle \/ ErrDriver \/ ErrConstruct \/ ErrApply
SpecErr == InitErr /\ [][NextErr]_vars

-----------------------------------------------------------------------------
(* Properties of the drivers.                                              *)

\* The n-bit big-endian binary expansion of m.
BigEndianBits(m, n) == [x \in 1..n |-> (m \div Pow2(n - x)) % 2]

\* The number of qubits of a table of length 2^n.
QubitsOf(tbl) == FloorLog2(Len0(tbl))

\* The marked index of a table with exactly one 1.
Marked(tbl) == CHOOSE x \in DOMAIN tbl : tbl[x] = 1

\* floor(pi * sqrt(2^n) / 4) for n = 1..7: 1.11, 1.57, 2.22, 3.14, 4.44, 6.28, 8.89.
ExpectedIterations == <<1, 1, 2, 3, 4, 6, 8>>

\* <<"h">> followed by c rounds of <<"o_f", "r">>.
GroverGates(c) ==
  [x \in 1..(2 * c + 1) |-> IF x = 1 THEN "h" ELSE IF x % 2 = 0 THEN "o_f" ELSE "r"]

\* C1: for every key of 1..7 bits (the all-zero key included),
\* bernstein_vazirani_algorithm on f = encode(key) returns exactly key.
C1_BVReturnsKey ==
  pc = "done" => result = key

\* C1 witness: a 7-bit key with a leading zero and a one has been recovered.
C1_Witness ==
  /\ pc = "done"
  /\ Len(key) = MaxScriptQubits
  /\ key[1] = 0
  /\ key[MaxScriptQubits] = 1
  /\ result = key

\* C1: the all-zero key of 7 bits has been recovered too.
C1_WitnessZeroKey ==
  pc = "done" /\ Len(key) = MaxScriptQubits /\ (\A x \in 1..Len(key) : key[x] = 0)

C3_GroverFindsMarkedFromOneQubit ==
  (pc = "done" /\ Ones(f) = 1)
    => result = BigEndianBits(Marked(f), QubitsOf(f))

\* C4: for every 0/1 table of length 2^n, n >= 1, deutsch_jozsa_algorithm
\* returns "constant 0" for the all-0 table, "constant 1" for the all-1
\* table, "balanced" when exactly half of the entries are 1, and "other" in
\* exactly the remaining cases.
C4_DJClassification ==
  (pc = "done" /\ QubitsOf(f) >= 1)
    => result = IF Ones(f) = 0 THEN "constant 0"
                ELSE IF Ones(f) = Len0(f) THEN "constant 1"
                ELSE IF 2 * Ones(f) = Len0(f) THEN "balanced"
                ELSE "other"

\* C4 witness: a table that is neither constant nor balanced was classified.
C4_Witness ==
  pc = "done" /\ QubitsOf(f) >= 2 /\ Ones(f) = 1 /\ result = "other"

\* C4: a balanced table on 2 qubits was classified.
C4_WitnessBalanced ==
  pc = "done" /\ QubitsOf(f) >= 2 /\ 2 * Ones(f) = Len0(f) /\ result = "balanced"

-----------------------------------------------------------------------------
(* Properties of QuantumRegister and of the gate builders.                 *)

\* The register's state vector.
RegState == heap[qregister.ref]

\* The imaginary parts of a gate's entries.
GateIm(gate) ==
  IF gate.dtype = "complex" THEN gate.im ELSE ZeroMatrix(Rows(gate.re))

\* The matrix-vector product gate . a over the complex numbers.
ComplexMatVec(gate, a) ==
  LET p == Len0(a.re)
  IN Reduce([re |-> [x \in 0..(p - 1) |->
                       Dot(gate.re.m[x], a.re, 0, p - 1) - Dot(GateIm(gate)[x], a.im, 0, p - 1)],
             im |-> [x \in 0..(p - 1) |->
                       Dot(gate.re.m[x], a.im, 0, p - 1) + Dot(GateIm(gate)[x], a.re, 0, p - 1)],
             e  |-> gate.re.e + a.e])

\* C5: for every p x p gate with real or complex entries, apply(gate)
\* replaces the state with gate . state (the imaginary parts of the gate's
\* entries included) and returns the register itself.
C5_ApplyIsMatrixProduct ==
  (/\ pc = "live"
   /\ lastCall.op = "apply"
   /\ Shape(Gate(lastCall.arg, Pow2(qregister.n)).re) = <<Pow2(qregister.n), Pow2(qregister.n)>>)
    => /\ lastCall.ok
       /\ lastCall.ret = "self"
       /\ RegState = ComplexMatVec(Gate(lastCall.arg, Pow2(qregister.n)), before)

\* The value of a bit list read as a binary integer, first bit most significant.
RECURSIVE PositionalSum(_, _)
PositionalSum(bits, x) ==
  IF x > Len(bits) THEN 0
  ELSE bits[x] * Pow2(Len(bits) - x) + PositionalSum(bits, x + 1)

\* C8: a register built from a bit list b, given as integers, as
\* one-character strings or as the predefined qubits, has amplitude 1 at the
\* index b read big-endian and amplitude 0 everywhere else.
C8_ConstructionsAgree ==
  (pc = "live" /\ ops = 0)
    => /\ qregister.n = Len(labels)
       /\ RegState = [re |-> [x \in 0..(Pow2(Len(labels)) - 1) |->
                               IF x = PositionalSum(labels, 1) THEN 1 ELSE 0],
                      im |-> Zeros(Pow2(Len(labels))),
                      e  |-> 0]

\* C8 witness: the register for the bit list 1, 0 holds amplitude 1 at index 2.
C8_Witness ==
  /\ pc = "live"
  /\ ops = 0
  /\ labels = <<1, 0>>
  /\ RegState.re[2] = 1

\* C9: a vector returned by state, real or imag keeps the values it had
\* (changed only by the caller's own writes) whatever the register does
\* later, and a write into a returned vector never changes the register's
\* state.
C9_AccessorsReturnCopies ==
  pc = "live"
    => /\ \A hnd \in held : View(heap[hnd.base], hnd.part) = snap[hnd]
       /\ RegState = shadow

\* C9 witness: after a read the register evolved, the caller wrote into the
\* vector it held, and the two now differ.
C9_Witness ==
  /\ pc = "live"
  /\ gates = <<"real", "h", "write">>
  /\ RegState = shadow
  /\ \E hnd \in held :
       /\ View(heap[hnd.base], hnd.part) # View(RegState, hnd.part)
       /\ View(heap[hnd.base], hnd.part) = snap[hnd]

\* C10: after any calls of apply, h, r and o_f, failing ones included, n is
\* unchanged and the state vector has length 2^n; a failing call leaves the
\* state as it was before the call.
C10_LengthAndFailuresPreserveState ==
  pc = "live"
    => /\ qregister.n = Len(labels)
       /\ Len0(RegState.re) = Pow2(Len(labels))
       /\ Len0(RegState.im) = Pow2(Len(labels))
       /\ (~lastCall.ok => RegState = before)

\* C10 witness: after a successful call, apply of a 1 x p matrix failed.
C10_Witness ==
  /\ pc = "live"
  /\ gates = <<"h">>
  /\ lastCall.op = "apply"
  /\ lastCall.arg = "row"
  /\ ~lastCall.ok
  /\ lastCall.kind = "AssertionError"
  /\ RegState = before

\* C6: phase_oracle(f) fails whenever f holds a value other than 0/1 or
\* len(f) is not a power of two; otherwise it returns the diagonal matrix
\* with (-1)^f[i] at i.
C6_PhaseOracleRejectsBadTables ==
  call.fn = "phase_oracle"
    => IF (\E x \in DOMAIN f : f[x] \notin {0, 1}) \/ ~IsPow2(Len0(f))
       THEN call.failed
       ELSE /\ ~call.failed
            /\ retval = [x \in DOMAIN f |-> [y \in DOMAIN f |->
                           IF x # y THEN 0 ELSE IF f[x] = 1 THEN -1 ELSE 1]]

\* C7: every precondition violation is surfaced as a failure, and the kind
\* of a failure identifies its class: size, domain and empty-input failures
\* are mutually distinguishable.
C7_FailureKindsIdentifyClass ==
  /\ call.class # {} => call.failed
  /\ \A a \in seen : \A b \in seen : (a.class = b.class) <=> (a.kind = b.kind)

=============================================================================
